---- MODULE Spec2Model ----
(***************************************************************************)
(* A model of Input/scraper.py: the MIDI crawler of animezen.net/midis.    *)
(*                                                                         *)
(* Python strings are modelled as sequences of one-character strings.      *)
(* The character universe is printable ASCII, TAB, LF and U+FFFD (the      *)
(* replacement character, written "U+FFFD"); the grave accent is written   *)
(* "U+0060".                                                               *)
(***************************************************************************)
EXTENDS Integers, Sequences, FiniteSets, TLC

\* ------------------------------------------------------------------------
\* Characters
\* ------------------------------------------------------------------------

\* Printable ASCII in code-point order: Printable[i] has code point 31 + i.
Printable ==
    << " ", "!", "\"", "#", "$", "%", "&", "'", "(", ")", "*", "+", ",", "-", ".", "/",
       "0", "1", "2", "3", "4", "5", "6", "7", "8", "9", ":", ";", "<", "=", ">", "?",
       "@", "A", "B", "C", "D", "E", "F", "G", "H", "I", "J", "K", "L", "M", "N", "O",
       "P", "Q", "R", "S", "T", "U", "V", "W", "X", "Y", "Z", "[", "\\", "]", "^", "_",
       "U+0060", "a", "b", "c", "d", "e", "f", "g", "h", "i", "j", "k", "l", "m", "n", "o",
       "p", "q", "r", "s", "t", "u", "v", "w", "x", "y", "z", "{", "|", "}", "~" >>

REPLACEMENT == "U+FFFD"

CharSet == {Printable[i] : i \in 1..Len(Printable)} \cup {"\t", "\n", REPLACEMENT}

\* ord(c)
OrdTable ==
    [c \in CharSet |->
        CASE c = "\t" -> 9
          [] c = "\n" -> 10
          [] c = REPLACEMENT -> 65533
          [] OTHER -> 31 + (CHOOSE i \in 1..Len(Printable) : Printable[i] = c)]

Ord(c) == OrdTable[c]

\* chr(n) for the code points of the universe.
Chr(n) ==
    CASE n = 9 -> "\t"
      [] n = 10 -> "\n"
      [] n \in 32..126 -> Printable[n - 31]
      [] OTHER -> REPLACEMENT

IsUpper(c) == Ord(c) \in 65..90
IsLowerAlpha(c) == Ord(c) \in 97..122
IsDigit(c) == Ord(c) \in 48..57
IsAlpha(c) == IsUpper(c) \/ IsLowerAlpha(c)

\* str.lower() on one character.
LowerChar(c) == IF IsUpper(c) THEN Chr(Ord(c) + 32) ELSE c

\* The whitespace of the regex class for spaces and of str.strip(), within the universe.
IsSpace(c) == c \in {" ", "\t", "\n"}

IsHex(c) == IsDigit(c) \/ Ord(c) \in 65..70 \/ Ord(c) \in 97..102

HexVal(c) ==
    IF IsDigit(c) THEN Ord(c) - 48
    ELSE IF Ord(c) \in 65..70 THEN Ord(c) - 55
    ELSE Ord(c) - 87

HexDigits == << "0", "1", "2", "3", "4", "5", "6", "7", "8", "9", "A", "B", "C", "D", "E", "F" >>

\* ------------------------------------------------------------------------
\* String helpers
\* ------------------------------------------------------------------------

\* s[i:] with a 1-based i.
Drop(s, i) == SubSeq(s, i, Len(s))

\* A slice that cuts nothing off.
TakeAll(s, n) == s

\* s[:n]
Take(s, n) == SubSeq(s, 1, IF n < Len(s) THEN n ELSE Len(s))

\* str.find from a 1-based position: the first index >= from holding c, or 0.
FindFrom(s, c, from) ==
    IF \E i \in from..Len(s) : s[i] = c
    THEN CHOOSE i \in from..Len(s) : s[i] = c /\ \A j \in from..(i - 1) : s[j] # c
    ELSE 0

Find(s, c) == FindFrom(s, c, 1)

\* str.rfind: the last index holding c, or 0.
RFind(s, c) ==
    IF \E i \in 1..Len(s) : s[i] = c
    THEN CHOOSE i \in 1..Len(s) : s[i] = c /\ \A j \in (i + 1)..Len(s) : s[j] # c
    ELSE 0

StartsWith(s, p) == Len(s) >= Len(p) /\ SubSeq(s, 1, Len(p)) = p

\* str.lower()
Lower(s) == [i \in 1..Len(s) |-> LowerChar(s[i])]

\* The characters of s that satisfy no removal, in order: s.replace(c, "") for c in cs.
RECURSIVE RemoveChars(_, _)
RemoveChars(s, cs) ==
    IF s = <<>> THEN <<>>
    ELSE (IF s[1] \in cs THEN <<>> ELSE <<s[1]>>) \o RemoveChars(Tail(s), cs)

\* str.lstrip(cs)
RECURSIVE LStrip(_, _)
LStrip(s, cs) ==
    IF s # <<>> /\ s[1] \in cs THEN LStrip(Tail(s), cs) ELSE s

\* str.rstrip(cs)
RECURSIVE RStrip(_, _)
RStrip(s, cs) ==
    IF s # <<>> /\ s[Len(s)] \in cs THEN RStrip(SubSeq(s, 1, Len(s) - 1), cs) ELSE s

\* str.strip(cs)
Strip(s, cs) == RStrip(LStrip(s, cs), cs)

\* ------------------------------------------------------------------------
\* UTF-8, percent-encoding (urllib.parse.quote / unquote)
\* ------------------------------------------------------------------------

\* c.encode("utf-8")
Utf8(c) ==
    IF c = REPLACEMENT THEN <<239, 191, 189>> ELSE <<Ord(c)>>

IsContinuation(b) == b \in 128..191

\* bytes.decode("utf-8", errors="replace"): one-byte and three-byte sequences
\* decode, every other byte is replaced by U+FFFD.
RECURSIVE Utf8Decode(_)
Utf8Decode(bs) ==
    IF bs = <<>> THEN <<>>
    ELSE IF bs[1] < 128 THEN <<Chr(bs[1])>> \o Utf8Decode(Tail(bs))
    ELSE IF /\ bs[1] \in 225..239
            /\ Len(bs) >= 3
            /\ IsContinuation(bs[2])
            /\ IsContinuation(bs[3])
         THEN <<REPLACEMENT>> \o Utf8Decode(Drop(bs, 4))
    ELSE <<REPLACEMENT>> \o Utf8Decode(Tail(bs))

\* urllib.parse.unquote_to_bytes over the UTF-8 encoding of s: "%XX" with two
\* hex digits becomes one byte, everything else stays.
RECURSIVE UnquoteToBytes(_)
UnquoteToBytes(s) ==
    IF s = <<>> THEN <<>>
    ELSE IF s[1] = "%" /\ Len(s) >= 3 /\ IsHex(s[2]) /\ IsHex(s[3])
         THEN <<16 * HexVal(s[2]) + HexVal(s[3])>> \o UnquoteToBytes(Drop(s, 4))
    ELSE Utf8(s[1]) \o UnquoteToBytes(Tail(s))

\* urllib.parse.unquote(s) (encoding utf-8, errors replace)
unquote(s) == Utf8Decode(UnquoteToBytes(s))

\* urllib.parse.unquote_plus(s)
unquote_plus(s) == unquote([i \in 1..Len(s) |-> IF s[i] = "+" THEN " " ELSE s[i]])

\* Characters quote() never escapes: letters, digits and "_.-~".
AlwaysSafe(c) == IsAlpha(c) \/ IsDigit(c) \/ c \in {"_", ".", "-", "~"}

PctByte(b) == << "%", HexDigits[(b \div 16) + 1], HexDigits[(b % 16) + 1] >>

RECURSIVE PctBytes(_)
PctBytes(bs) == IF bs = <<>> THEN <<>> ELSE PctByte(bs[1]) \o PctBytes(Tail(bs))

\* urllib.parse.quote(s, safe=safe); safe is a set of characters.
RECURSIVE quote(_, _)
quote(s, safe) ==
    IF s = <<>> THEN <<>>
    ELSE (IF AlwaysSafe(s[1]) \/ s[1] \in safe THEN <<s[1]>> ELSE PctBytes(Utf8(s[1])))
         \o quote(Tail(s), safe)

\* urllib.parse.quote_plus(s, safe=safe): quote with " " kept, then " " -> "+".
quote_plus(s, safe) ==
    LET q == quote(s, safe \cup {" "})
    IN  [i \in 1..Len(q) |-> IF q[i] = " " THEN "+" ELSE q[i]]

\* ------------------------------------------------------------------------
\* URL splitting and joining (urllib.parse), as normalize_url uses them
\* ------------------------------------------------------------------------

BASE_URL == << "h", "t", "t", "p", "s", ":", "/", "/",
               "a", "n", "i", "m", "e", "z", "e", "n", ".", "n", "e", "t" >>

HTTPS == << "h", "t", "t", "p", "s" >>

\* urllib.parse.scheme_chars
SchemeChar(c) == IsAlpha(c) \/ IsDigit(c) \/ c \in {"+", "-", "."}

\* The schemes of uses_relative, uses_netloc and uses_params that the
\* character strings of this model spell: "", "http" and "https".
UsesNetloc(scheme) == scheme \in {<<>>, HTTPS, << "h", "t", "t", "p" >>}
UsesRelative(scheme) == UsesNetloc(scheme)
UsesParams(scheme) == UsesNetloc(scheme)

\* The end of the network location: the first of "/", "?", "#" at or after
\* position from, or Len(s) + 1 (urllib.parse._splitnetloc).
NetlocEnd(s, from) ==
    LET hits == {i \in from..Len(s) : s[i] \in {"/", "?", "#"}}
    IN  IF hits = {} THEN Len(s) + 1
        ELSE CHOOSE i \in hits : \A j \in hits : i <= j

\* The first lines of urlsplit: leading blanks stripped, TAB and LF removed.
UrlClean(url) == RemoveChars(LStrip(url, {" ", "\t", "\n"}), {"\t", "\n"})

\* The last step of urlsplit: the query split off at the first "?".
SplitQuery(scheme, netloc, u, fragment) ==
    LET q == Find(u, "?")
    IN  [scheme |-> scheme, netloc |-> netloc,
         path |-> IF q > 0 THEN SubSeq(u, 1, q - 1) ELSE u,
         query |-> IF q > 0 THEN Drop(u, q + 1) ELSE <<>>,
         fragment |-> fragment]

\* The fragment split off at the first "#".
SplitFragment(scheme, netloc, u) ==
    LET h == Find(u, "#")
    IN  SplitQuery(scheme, netloc,
                   IF h > 0 THEN SubSeq(u, 1, h - 1) ELSE u,
                   IF h > 0 THEN Drop(u, h + 1) ELSE <<>>)

\* The network location split off after a leading "//".
SplitNetloc(scheme, u) ==
    LET hasNetloc == StartsWith(u, << "/", "/" >>)
        e == NetlocEnd(u, 3)
    IN  SplitFragment(scheme,
                      IF hasNetloc THEN SubSeq(u, 3, e - 1) ELSE <<>>,
                      IF hasNetloc THEN Drop(u, e) ELSE u)

\* The scheme split off at the first ":" when what precedes it spells one.
SplitScheme(u, default) ==
    LET i == Find(u, ":")
        hasScheme == /\ i > 1
                     /\ IsAlpha(u[1])
                     /\ \A k \in 1..(i - 1) : SchemeChar(u[k])
    IN  SplitNetloc(IF hasScheme THEN Lower(SubSeq(u, 1, i - 1)) ELSE default,
                    IF hasScheme THEN Drop(u, i + 1) ELSE u)

\* urllib.parse.urlsplit(url, scheme=default)
urlsplit(url, default) == SplitScheme(UrlClean(url), default)

\* urllib.parse._splitparams(path): the index of the ";" that starts the
\* parameters of the last path segment, or 0.
ParamsIndex(path) ==
    IF Find(path, "/") > 0 THEN FindFrom(path, ";", RFind(path, "/")) ELSE Find(path, ";")

\* The parameters of the last path segment split off a urlsplit result.
SplitParams(sp) ==
    LET i == IF UsesParams(sp.scheme) THEN ParamsIndex(sp.path) ELSE 0
    IN  [scheme |-> sp.scheme, netloc |-> sp.netloc,
         path |-> IF i > 0 THEN SubSeq(sp.path, 1, i - 1) ELSE sp.path,
         params |-> IF i > 0 THEN Drop(sp.path, i + 1) ELSE <<>>,
         query |-> sp.query, fragment |-> sp.fragment]

\* urllib.parse.urlparse(url, scheme=default): urlsplit, then the parameters
\* of the last path segment split off.
urlparse(url, default) == SplitParams(urlsplit(url, default))

\* urllib.parse.urlunsplit((scheme, netloc, path, query, fragment))
urlunsplit(scheme, netloc, path, query, fragment) ==
    LET u1 == IF netloc # <<>>
                 \/ (scheme # <<>> /\ UsesNetloc(scheme) /\ ~StartsWith(path, << "/", "/" >>))
              THEN << "/", "/" >> \o netloc
                   \o (IF path # <<>> /\ path[1] # "/" THEN << "/" >> ELSE <<>>) \o path
              ELSE path
        u2 == IF scheme # <<>> THEN scheme \o << ":" >> \o u1 ELSE u1
        u3 == IF query # <<>> THEN u2 \o << "?" >> \o query ELSE u2
    IN  IF fragment # <<>> THEN u3 \o << "#" >> \o fragment ELSE u3

\* urllib.parse.urlunparse: the parameters rejoined to the path when not empty.
urlunparse(scheme, netloc, path, params, query, fragment) ==
    urlunsplit(scheme, netloc,
               IF params # <<>> THEN path \o << ";" >> \o params ELSE path,
               query, fragment)

\* str.split("/")
RECURSIVE SplitSlash(_)
SplitSlash(s) ==
    LET i == Find(s, "/")
    IN  IF i = 0 THEN << s >>
        ELSE << SubSeq(s, 1, i - 1) >> \o SplitSlash(Drop(s, i + 1))

\* "/".join(segs)
RECURSIVE JoinSlash(_)
JoinSlash(segs) ==
    IF segs = <<>> THEN <<>>
    ELSE IF Len(segs) = 1 THEN segs[1]
    ELSE segs[1] \o << "/" >> \o JoinSlash(Tail(segs))

\* The loop of urljoin that resolves "." and ".." segments.
RECURSIVE ResolveSegments(_, _)
ResolveSegments(segs, acc) ==
    IF segs = <<>> THEN acc
    ELSE IF segs[1] = << ".", "." >>
         THEN ResolveSegments(Tail(segs),
                              IF acc = <<>> THEN acc ELSE SubSeq(acc, 1, Len(acc) - 1))
    ELSE IF segs[1] = << "." >> THEN ResolveSegments(Tail(segs), acc)
    ELSE ResolveSegments(Tail(segs), Append(acc, segs[1]))

\* segments[1:-1] = filter(None, segments[1:-1])
DropEmptyInner(segs) ==
    IF Len(segs) <= 2 THEN segs
    ELSE << segs[1] >>
         \o SelectSeq(SubSeq(segs, 2, Len(segs) - 1), LAMBDA x : x # <<>>)
         \o << segs[Len(segs)] >>

\* base_parts = bpath.split("/"), without its last part when that is not empty.
BaseParts(parts) ==
    IF parts[Len(parts)] # <<>> THEN SubSeq(parts, 1, Len(parts) - 1) ELSE parts

\* The segments urljoin resolves: those of an absolute path, or the base's
\* with the reference's appended.
Segments(bpath, upath) ==
    IF StartsWith(upath, << "/" >>)
    THEN SplitSlash(upath)
    ELSE DropEmptyInner(BaseParts(SplitSlash(bpath)) \o SplitSlash(upath))

\* The resolved path: a trailing "." or ".." leaves a trailing "/".
Resolved(segments) ==
    IF segments[Len(segments)] \in {<< "." >>, << ".", "." >>}
    THEN Append(ResolveSegments(segments, <<>>), <<>>)
    ELSE ResolveSegments(segments, <<>>)

\* "/".join(resolved_path) or "/"
PathOrRoot(joined) == IF joined = <<>> THEN << "/" >> ELSE joined

\* urljoin once base and url are parsed into b and u.
JoinParsed(url, b, u) ==
    IF u.scheme # b.scheme \/ ~UsesRelative(u.scheme) THEN url
    ELSE IF UsesNetloc(u.scheme) /\ u.netloc # <<>>
         THEN urlunparse(u.scheme, u.netloc, u.path, u.params, u.query, u.fragment)
    ELSE IF u.path = <<>> /\ u.params = <<>>
         THEN urlunparse(u.scheme, b.netloc, b.path, b.params,
                         IF u.query = <<>> THEN b.query ELSE u.query, u.fragment)
    ELSE urlunparse(u.scheme, b.netloc,
                    PathOrRoot(JoinSlash(Resolved(Segments(b.path, u.path)))),
                    u.params, u.query, u.fragment)

\* urljoin once base is parsed into b: url is parsed with b's scheme as default.
JoinBase(url, b) == JoinParsed(url, b, urlparse(url, b.scheme))

\* urllib.parse.urljoin(base, url)
urljoin(base, url) ==
    IF base = <<>> THEN url
    ELSE IF url = <<>> THEN base
    ELSE JoinBase(url, urlparse(base, <<>>))

\* ------------------------------------------------------------------------
\* normalize_url
\* ------------------------------------------------------------------------

\* safe="/()!.,;:@-_"
PathSafe == {"/", "(", ")", "!", ".", ",", ";", ":", "@", "-", "_"}

\* safe="=&"
QuerySafe == {"=", "&"}

\* Lines 78-81: each component decoded, encoded again, and the URL rebuilt.
Requote(parts) ==
    urlunsplit(parts.scheme, parts.netloc,
               quote(unquote(parts.path), PathSafe),
               quote_plus(unquote_plus(parts.query), QuerySafe),
               quote(unquote(parts.fragment), {}))

normalize_url(url) == Requote(urlsplit(urljoin(BASE_URL, url), <<>>))

\* ------------------------------------------------------------------------
\* _slugify and _safe_filename_from_url
\* ------------------------------------------------------------------------

\* re.sub(<class>+, "-", s): every maximal run of characters of cs becomes
\* one hyphen.
RECURSIVE ReplaceRuns(_, _)
ReplaceRuns(s, cs) ==
    IF s = <<>> THEN <<>>
    ELSE IF s[1] \in cs
         THEN << "-" >> \o ReplaceRuns(LStrip(s, cs), cs)
    ELSE << s[1] >> \o ReplaceRuns(Tail(s), cs)

\* The characters of [a-z0-9\-_.()]
SlugChars == {c \in CharSet : IsLowerAlpha(c) \/ IsDigit(c) \/ c \in {"-", "_", ".", "(", ")"}}

SpaceChars == {c \in CharSet : IsSpace(c)}

UNTITLED == << "u", "n", "t", "i", "t", "l", "e", "d" >>

_slugify(text, max_len) ==
    LET t1 == Lower(Strip(text, SpaceChars))
        t2 == ReplaceRuns(t1, SpaceChars)
        t3 == ReplaceRuns(t2, CharSet \ SlugChars)
        t4 == Strip(ReplaceRuns(t3, {"-"}), {"-"})
        cut == Take(t4, max_len)
    IN  IF cut = <<>> THEN UNTITLED ELSE cut

\* The default of _slugify's max_len parameter.
SLUG_MAX_LEN == 120

\* os.path.basename(p)
basename(p) == Drop(p, RFind(p, "/") + 1)

\* os.path.splitext(p): the last dot after the last "/" starts the extension,
\* unless only dots stand between that "/" and it.
splitext(p) ==
    LET sepIndex == RFind(p, "/")
        dotIndex == RFind(p, ".")
    IN  IF dotIndex > sepIndex /\ \E k \in (sepIndex + 1)..(dotIndex - 1) : p[k] # "."
        THEN << SubSeq(p, 1, dotIndex - 1), Drop(p, dotIndex) >>
        ELSE << p, <<>> >>

DOT_MID == << ".", "m", "i", "d" >>

\* The file name from the (root, ext) pair of splitext.
FilenameOf(re) ==
    _slugify(re[1], SLUG_MAX_LEN) \o Lower(IF re[2] # <<>> THEN re[2] ELSE DOT_MID)

_safe_filename_from_url(url) ==
    FilenameOf(splitext(unquote(basename(urlparse(url, <<>>).path))))

\* ------------------------------------------------------------------------
\* parse_categories and parse_midis
\* ------------------------------------------------------------------------

\* The regex end of string: at the end, or before a newline that ends the string.
AtEnd(s, j) == j = Len(s) + 1 \/ (j = Len(s) /\ s[j] = "\n")

\* re.search(r"\.(mid|midi)(\?|$)", href, flags=re.IGNORECASE)
IsMidiHref(href) ==
    \E i \in 1..Len(href) :
        /\ href[i] = "."
        /\ \E n \in {3, 4} :
              /\ i + n <= Len(href)
              /\ Lower(SubSeq(href, i + 1, i + n)) = SubSeq(<< "m", "i", "d", "i" >>, 1, n)
              /\ \/ AtEnd(href, i + n + 1)
                 \/ (i + n + 1 <= Len(href) /\ href[i + n + 1] = "?")

\* a < b for Python strings: by code points, a proper prefix first.
RECURSIVE StrLess(_, _)
StrLess(a, b) ==
    IF b = <<>> THEN FALSE
    ELSE IF a = <<>> THEN TRUE
    ELSE IF a[1] # b[1] THEN Ord(a[1]) < Ord(b[1])
    ELSE StrLess(Tail(a), Tail(b))

\* sorted(S) for a set S of strings
RECURSIVE Sorted(_)
Sorted(S) ==
    IF S = {} THEN <<>>
    ELSE LET m == CHOOSE x \in S : \A y \in S \ {x} : StrLess(x, y)
         IN  << m >> \o Sorted(S \ {m})

MIDIS_PREFIX == << "/", "m", "i", "d", "i", "s", "/" >>

\* .replace("-", " ")
HyphensToSpaces(s) == [i \in 1..Len(s) |-> IF s[i] = "-" THEN " " ELSE s[i]]

\* name or href
NameOr(name, href) == IF name = <<>> THEN href ELSE name

\* One category of parse_categories, from an href that passed its filters.
CategoryOf(href) ==
    [name |-> NameOr(Strip(HyphensToSpaces(unquote(Drop(href, Len(MIDIS_PREFIX) + 1))),
                           SpaceChars),
                     href),
     url |-> urljoin(BASE_URL, href)]

\* parse_categories; hrefs is the sequence re.findall returns for the index page.
parse_categories(hrefs) ==
    LET sorted == Sorted({hrefs[i] : i \in 1..Len(hrefs)})
        kept == SelectSeq(sorted, LAMBDA h : StartsWith(h, MIDIS_PREFIX) /\ ~IsMidiHref(h))
    IN  [i \in 1..Len(kept) |-> CategoryOf(kept[i])]

\* One entry of parse_midis for a normalized url.
MidiEntry(url, category_name) ==
    [category_name |-> category_name,
     title |-> unquote(basename(urlparse(url, <<>>).path)),
     url |-> url]

\* The first loop of parse_midis: one entry per matching href.
MidiOf(href, category_name) == MidiEntry(normalize_url(href), category_name)

\* A second loop that skips nothing.
UniqueKeepAll(midis, seen) == midis

\* The second loop of parse_midis: the first entry of every url, in order.
RECURSIVE Unique(_, _)
Unique(midis, seen) ==
    IF midis = <<>> THEN <<>>
    ELSE IF midis[1].url \in seen THEN Unique(Tail(midis), seen)
    ELSE << midis[1] >> \o Unique(Tail(midis), seen \cup {midis[1].url})

\* parse_midis; hrefs is the sequence re.findall returns for the category page.
parse_midis(hrefs, category_name) ==
    LET matching == SelectSeq(hrefs, IsMidiHref)
        midis == [i \in 1..Len(matching) |-> MidiOf(matching[i], category_name)]
    IN  Unique(midis, {})

\* ------------------------------------------------------------------------
\* State
\* ------------------------------------------------------------------------

VARIABLES
    pc,                 \* the statement the program is at
    fs_dirs,            \* the directories on disk (paths)
    fs_files,           \* the regular files on disk: path -> content
    dry_run,            \* DRY_RUN / the dry_run argument
    retries,            \* RETRIES / the retries argument
    url,                \* download_file: url
    dest_path,          \* download_file: dest_path
    tmp_path,           \* download_file: tmp_path
    attempt,            \* download_file: the loop variable
    last_err,           \* download_file: last_err
    resp_read,          \* download_file: chunks read from the open response
    outcome,            \* download_file: the value returned
    requests,           \* history: HTTP requests issued by the current call
    sleeps,             \* history: the backoff sleeps of the current call, in order
    fails,              \* history: the attempts of the current call that failed, in order
    cleanup_failed,     \* history: an unlink of tmp_path failed during the current call
    categories,         \* main: the categories still to be processed
    cat_folder,         \* main: cat_folder
    midi_links,         \* main: the links of the category still to be processed
    total_seen,         \* main: total_seen
    total_downloaded,   \* main: total_downloaded
    exit_status,        \* the status the process exited with
    raised,             \* history: the statement whose exception nobody caught
    requested,          \* history: the kinds of HTTP request the run has issued
    fs0,                \* history: the disk when the run started
    renames,            \* history: path -> times a download was renamed into place there
    guarded,            \* history: path -> content, for destinations that existed at their download
    cat_dirs,           \* history: the (category url, folder) pairs of the run
    found,              \* history: how many categories the index yielded, -1 before
    returned,           \* history: message -> calls of download_file that returned it to main
    extracted,          \* history: how many links parse_midis has returned to main
    since_sleep,        \* history: HTTP requests issued since the last sleep
    first_call,         \* two calls in sequence: what the first call did
    n_url,              \* normalize_url applied twice: the input
    n_once,             \* normalize_url(n_url)
    n_twice,            \* normalize_url(n_once)
    fn_in,              \* a function applied on its own: its arguments
    fn_out              \* a function applied on its own: its result

vars == << pc, fs_dirs, fs_files, dry_run, retries, url, dest_path, tmp_path, attempt,
           last_err, resp_read, outcome, requests, sleeps, fails, categories, cat_folder,
           midi_links, total_seen, total_downloaded, exit_status, raised, requested, fs0,
           renames, guarded, cat_dirs, found, returned, extracted, first_call, n_url,
           n_once, n_twice, cleanup_failed, since_sleep, fn_in, fn_out >>

\* The variables of download_file's frame and of its history.
dl_vars == << url, dest_path, tmp_path, attempt, last_err, resp_read, outcome,
              requests, sleeps, fails, cleanup_failed >>

\* The variables of main's frame and of its history.
main_vars == << categories, cat_folder, midi_links, total_seen, total_downloaded,
                exit_status, raised, requested, cat_dirs, found, returned, extracted >>

norm_vars == << n_url, n_once, n_twice >>

fn_vars == << fn_in, fn_out >>
env_vars == << dry_run, retries, fs0 >>

\* A value for a variable that holds nothing yet.
NONE == << >>

\* ------------------------------------------------------------------------
\* Configuration and bounds
\* ------------------------------------------------------------------------

\* RETRIES = 2
RETRIES == 2

\* BACKOFF_S = 1.0
BACKOFF_S == 1

\* The number of 64 KiB chunks of every response body.
BodyLen == 2

\* The most hrefs a category page holds.
MaxLinks == 2

\* The longest input of normalize_url, after its leading "/".
MaxUrlLen == 3

\* The longest text _slugify is given.
MaxTextLen == 3

\* The largest max_len _slugify is given; the fallback has 8 characters.
MaxSlugLen == 9

\* The most hrefs on a page given to parse_categories or parse_midis.
MaxHrefs == 3

\* The most pieces after BASE_URL/midis/ in a url given to
\* _safe_filename_from_url.
MaxTokens == 4

\* ------------------------------------------------------------------------
\* The file system
\* ------------------------------------------------------------------------

\* OUT_DIR = Path("Input/downloaded_midis"); a path is the sequence of its components.
OUT_DIR == << << "I", "n", "p", "u", "t" >>,
              << "d", "o", "w", "n", "l", "o", "a", "d", "e", "d", "_", "m", "i", "d", "i", "s" >> >>

\* path.parent
Parent(path) == SubSeq(path, 1, Len(path) - 1)

\* path and its ancestors
WithAncestors(path) == {SubSeq(path, 1, k) : k \in 1..Len(path)}

\* A faulty existence test that sees directories only, never regular files.
ExistsAsDirectory(path) == path \in fs_dirs

\* path.exists()
Exists(path) == path \in fs_dirs \/ path \in DOMAIN fs_files

\* path.mkdir(parents=True, exist_ok=True) cannot succeed: a regular file is in the way.
MkdirBlocked(path) == WithAncestors(path) \cap DOMAIN fs_files # {}

\* dest_path.with_suffix(dest_path.suffix + ".part"): ".part" appended to the name.
PART == << ".", "p", "a", "r", "t" >>

WithPartSuffix(path) == Append(Parent(path), path[Len(path)] \o PART)

\* The content of a file: the URL whose body it holds and the chunks written.
Content(body, n) == [body |-> body, n |-> n]

\* A file holds a whole response body.
Complete(c) == c.n = BodyLen

\* An unlink that removes nothing.
UnlinkedNothing(files, path) == files

\* The disk without the file at path.
Unlinked(files, path) == [q \in DOMAIN files \ {path} |-> files[q]]

\* ------------------------------------------------------------------------
\* download_file
\* ------------------------------------------------------------------------

\* An exception: the statement that raised it and the attempt it was raised in.
Err(kind, k) == [kind |-> kind, attempt |-> k]

\* last_err = None
NoErr == Err("none", 0)

\* The tuple (downloaded, message); an error message carries str(last_err).
Outcome(downloaded, message, err) ==
    [downloaded |-> downloaded, message |-> message, err |-> err]

NoOutcome == Outcome(FALSE, "none", NoErr)

\* backoff_s * (2**attempt)
Backoff(k) == BACKOFF_S * (2 ^ k)

\* A faulty retry test, off by one: it retries after attempt number retries too.
ShouldRetryOnceMore(k) == k <= retries

\* if attempt < retries
ShouldRetry(k) == k < retries

\* The URL _request asks for: it normalizes its argument again.
RequestUrl(u) == normalize_url(u)

\* An empty frame and history of download_file.
DlReset ==
    /\ url' = NONE
    /\ dest_path' = NONE
    /\ tmp_path' = NONE
    /\ attempt' = 0
    /\ last_err' = NoErr
    /\ resp_read' = 0
    /\ outcome' = NoOutcome
    /\ requests' = 0
    /\ sleeps' = << >>
    /\ fails' = << >>
    /\ cleanup_failed' = FALSE

\* The call download_file(u, d, ...): its arguments bound, nothing done yet.
DlCall(u, d) ==
    /\ url' = u
    /\ dest_path' = d
    /\ tmp_path' = NONE
    /\ attempt' = 0
    /\ last_err' = NoErr
    /\ resp_read' = 0
    /\ outcome' = NoOutcome
    /\ requests' = 0
    /\ sleeps' = << >>
    /\ fails' = << >>
    /\ cleanup_failed' = FALSE
    /\ pc' = "dl_enter"

\* Lines 157-165: the two short circuits, then the parent directory, the
\* temporary path and the loop's first attempt.  mkdir is outside the try.
DlEnter ==
    /\ pc = "dl_enter"
    /\ UNCHANGED << url, dest_path, resp_read, requests, sleeps, fails, cleanup_failed,
                    fs_files >>
    /\ UNCHANGED << main_vars, norm_vars, fn_vars, env_vars, since_sleep, renames, first_call >>
    /\ attempt' = 0
    /\ last_err' = NoErr
    /\ IF Exists(dest_path)
       THEN /\ outcome' = Outcome(FALSE, "exists", NoErr)
            /\ guarded' = IF dest_path \in DOMAIN fs_files
                          THEN guarded @@ (dest_path :> fs_files[dest_path])
                          ELSE guarded
            /\ pc' = "dl_return"
            /\ UNCHANGED << fs_dirs, tmp_path >>
       ELSE IF dry_run
       THEN /\ outcome' = Outcome(FALSE, "dry-run", NoErr)
            /\ pc' = "dl_return"
            /\ UNCHANGED << fs_dirs, tmp_path, guarded >>
       ELSE /\ UNCHANGED << outcome, guarded >>
            /\ \E mkdir_ok \in IF Parent(dest_path) \in fs_dirs THEN {TRUE}
                               ELSE IF MkdirBlocked(Parent(dest_path)) THEN {FALSE}
                               ELSE BOOLEAN :
                  IF mkdir_ok
                  THEN /\ fs_dirs' = fs_dirs \cup WithAncestors(Parent(dest_path))
                       /\ tmp_path' = WithPartSuffix(dest_path)
                       /\ pc' = "dl_request"
                  ELSE /\ pc' = "dl_raised"
                       /\ UNCHANGED << fs_dirs, tmp_path >>

\* Lines 168-169: _request and urlopen.  A failure goes to the except clause,
\* whose first statement binds last_err.
DlRequest ==
    /\ pc = "dl_request"
    /\ requests' = requests + 1
    /\ since_sleep' = since_sleep + 1
    /\ requested' = requested \cup {"file"}
    /\ \E ok \in BOOLEAN :
          IF ok
          THEN /\ resp_read' = 0
               /\ pc' = "dl_open"
               /\ UNCHANGED last_err
          ELSE /\ last_err' = Err("urlopen", attempt)
               /\ pc' = "dl_except"
               /\ UNCHANGED resp_read
    /\ UNCHANGED << url, dest_path, tmp_path, attempt, outcome, sleeps, fails, cleanup_failed >>
    /\ UNCHANGED << categories, cat_folder, midi_links, total_seen, total_downloaded,
                    exit_status, raised, cat_dirs, found, returned, extracted >>
    /\ UNCHANGED << norm_vars, fn_vars, env_vars, renames, guarded, first_call,
                    fs_dirs, fs_files >>

\* An open that keeps what a file already holds.
OpenedAppend(files, path, body) ==
    IF path \in DOMAIN files THEN files ELSE (path :> Content(body, 0)) @@ files

\* path.open("wb"): the file is created, or truncated when it exists; what is
\* written to it will come from body.
Opened(files, path, body) == (path :> Content(body, 0)) @@ files

\* Line 170: tmp_path.open("wb") creates the file or truncates it.
DlOpenTmp ==
    /\ pc = "dl_open"
    /\ \E ok \in BOOLEAN :
          IF ok
          THEN /\ fs_files' = Opened(fs_files, tmp_path, RequestUrl(url))
               /\ pc' = "dl_read"
               /\ UNCHANGED last_err
          ELSE /\ last_err' = Err("open", attempt)
               /\ pc' = "dl_except"
               /\ UNCHANGED fs_files
    /\ UNCHANGED << url, dest_path, tmp_path, attempt, resp_read, outcome, requests,
                    sleeps, fails, cleanup_failed >>
    /\ UNCHANGED << main_vars, norm_vars, fn_vars, env_vars, since_sleep, renames, guarded,
                    first_call, fs_dirs >>

\* Lines 171-175: one turn of the copy loop: read a chunk and write it, or
\* see the end of the body and leave the two with blocks.  resp.read(n)
\* returns b"" when the peer has closed the connection, whether or not the
\* whole body has arrived: a truncated stream ends the loop like a whole one.
DlCopy ==
    /\ pc = "dl_read"
    /\ \E step \in {"copied", "truncated", "read_failed", "write_failed"} :
          CASE step = "read_failed" ->
                  /\ last_err' = Err("read", attempt)
                  /\ pc' = "dl_except"
                  /\ UNCHANGED << fs_files, resp_read >>
            [] step = "write_failed" ->
                  /\ resp_read < BodyLen
                  /\ resp_read' = resp_read + 1
                  /\ last_err' = Err("write", attempt)
                  /\ pc' = "dl_except"
                  /\ UNCHANGED fs_files
            [] step = "truncated" ->
                  /\ resp_read < BodyLen
                  /\ pc' = "dl_replace"
                  /\ UNCHANGED << fs_files, resp_read, last_err >>
            [] step = "copied" ->
                  /\ UNCHANGED last_err
                  /\ IF resp_read < BodyLen
                     THEN /\ resp_read' = resp_read + 1
                          /\ fs_files' = [fs_files EXCEPT ![tmp_path].n = @ + 1]
                          /\ pc' = "dl_read"
                     ELSE /\ pc' = "dl_replace"
                          /\ UNCHANGED << fs_files, resp_read >>
    /\ UNCHANGED << url, dest_path, tmp_path, attempt, outcome, requests, sleeps, fails,
                    cleanup_failed >>
    /\ UNCHANGED << main_vars, norm_vars, fn_vars, env_vars, since_sleep, renames, guarded,
                    first_call, fs_dirs >>

\* Lines 176-177: tmp_path.replace(dest_path), then return.
DlReplace ==
    /\ pc = "dl_replace"
    /\ \E ok \in BOOLEAN :
          IF ok
          THEN /\ fs_files' = (dest_path :> fs_files[tmp_path]) @@ Unlinked(fs_files, tmp_path)
               /\ renames' = (dest_path :> (IF dest_path \in DOMAIN renames
                                            THEN renames[dest_path] + 1 ELSE 1)) @@ renames
               /\ outcome' = Outcome(TRUE, "downloaded", NoErr)
               /\ pc' = "dl_return"
               /\ UNCHANGED last_err
          ELSE /\ last_err' = Err("replace", attempt)
               /\ pc' = "dl_except"
               /\ UNCHANGED << fs_files, renames, outcome >>
    /\ UNCHANGED << url, dest_path, tmp_path, attempt, resp_read, requests, sleeps, fails,
                    cleanup_failed >>
    /\ UNCHANGED << main_vars, norm_vars, fn_vars, env_vars, since_sleep, guarded, first_call,
                    fs_dirs >>

\* Lines 180-191: the best-effort cleanup, whose own failure is swallowed, then
\* the backoff sleep and the next attempt, or the error outcome.
DlExcept ==
    /\ pc = "dl_except"
    /\ fails' = Append(fails, attempt)
    /\ \E unlinked \in IF Exists(tmp_path) THEN BOOLEAN ELSE {FALSE} :
          /\ fs_files' = IF unlinked /\ tmp_path \in DOMAIN fs_files
                         THEN Unlinked(fs_files, tmp_path)
                         ELSE fs_files
          /\ cleanup_failed' = (cleanup_failed \/ (Exists(tmp_path) /\ ~unlinked))
    /\ IF ShouldRetry(attempt)
       THEN /\ sleeps' = Append(sleeps, Backoff(attempt))
            /\ attempt' = attempt + 1
            /\ since_sleep' = 0
            /\ pc' = "dl_request"
            /\ UNCHANGED outcome
       ELSE /\ outcome' = Outcome(FALSE, "error", last_err)
            /\ pc' = "dl_return"
            /\ UNCHANGED << sleeps, attempt, since_sleep >>
    /\ UNCHANGED << url, dest_path, tmp_path, last_err, resp_read, requests >>
    /\ UNCHANGED << main_vars, norm_vars, fn_vars, env_vars, renames, guarded,
                    first_call, fs_dirs >>

\* ------------------------------------------------------------------------
\* main
\* ------------------------------------------------------------------------

\* The sequences over S of length at most n.
BoundedSeq(S, n) == UNION {[1..k -> S] : k \in 0..n}

\* What re.findall returns for the index pages the run may be served.
IndexPages ==
    { << >>,
      << << "/", "m", "i", "d", "i", "s", "/", "a" >> >>,
      << << "/", "m", "i", "d", "i", "s", "/", "b" >>,
         << "/", "m", "i", "d", "i", "s", "/", "a" >>,
         << "/", "m", "i", "d", "i", "s" >>,
         << "/", "m", "i", "d", "i", "s", "/", "x", ".", "m", "i", "d" >> >> }

\* The hrefs a category page may hold.
FileHrefs ==
    { << "/", "m", "i", "d", "i", "s", "/", "a", ".", "m", "i", "d" >>,
      << "/", "m", "i", "d", "i", "s", "/", "A", ".", "m", "i", "d" >>,
      << "/", "m", "i", "d", "i", "s", "/", "a", ".", "m", "i", "d", ".", "p", "a", "r", "t",
         "?", ".", "m", "i", "d" >> }

\* The text of a category page's <h1>, tags removed; empty when it has none.
Headings == { << >>, << "A" >> }

\* The category pages the run may be served.
CategoryPages == [h1 : Headings, hrefs : BoundedSeq(FileHrefs, MaxLinks)]

\* if not categories
NoCategories(cats) == cats = << >>

\* Lines 219-223: the <h1> text when there is one and it is not blank.
CatDisplay(cat, page) ==
    IF Strip(page.h1, SpaceChars) # << >> THEN Strip(page.h1, SpaceChars) ELSE cat.name

\* Line 228: OUT_DIR / _slugify(cat_display)
CatFolder(cat_display) == Append(OUT_DIR, _slugify(cat_display, SLUG_MAX_LEN))

\* Lines 233-234: cat_folder / _safe_filename_from_url(midi["url"])
DestOf(folder, midi) == Append(folder, _safe_filename_from_url(midi.url))

\* An exception leaves main: nothing catches it.
Uncaught(stmt) ==
    /\ raised' = stmt
    /\ pc' = "uncaught"

\* Line 202: OUT_DIR.mkdir(parents=True, exist_ok=True)
MainStart ==
    /\ pc = "start"
    /\ \E mkdir_ok \in IF OUT_DIR \in fs_dirs THEN {TRUE}
                       ELSE IF MkdirBlocked(OUT_DIR) THEN {FALSE}
                       ELSE BOOLEAN :
          IF mkdir_ok
          THEN /\ fs_dirs' = fs_dirs \cup WithAncestors(OUT_DIR)
               /\ pc' = "fetch_index"
               /\ UNCHANGED raised
          ELSE /\ Uncaught("out_mkdir")
               /\ UNCHANGED fs_dirs
    /\ UNCHANGED << categories, cat_folder, midi_links, total_seen, total_downloaded,
                    exit_status, requested, cat_dirs, found, returned, extracted >>
    /\ UNCHANGED << dl_vars, norm_vars, fn_vars, env_vars, since_sleep, renames, guarded,
                    first_call, fs_files >>

\* Lines 204-213: the index is fetched and parsed; no category ends the run
\* with status 2.
MainFetchIndex ==
    /\ pc = "fetch_index"
    /\ requested' = requested \cup {"index"}
    /\ since_sleep' = since_sleep + 1
    /\ \/ /\ Uncaught("fetch_index")
          /\ UNCHANGED << categories, exit_status, found >>
       \/ \E hrefs \in IndexPages :
             /\ categories' = parse_categories(hrefs)
             /\ found' = Len(categories')
             /\ IF NoCategories(categories')
                THEN /\ exit_status' = 2
                     /\ pc' = "exited"
                ELSE /\ pc' = "cat_loop"
                     /\ UNCHANGED exit_status
             /\ UNCHANGED raised
    /\ total_downloaded' = 0
    /\ total_seen' = 0
    /\ UNCHANGED << cat_folder, midi_links, cat_dirs, returned, extracted >>
    /\ UNCHANGED << dl_vars, norm_vars, fn_vars, env_vars, renames, guarded,
                    first_call, fs_dirs, fs_files >>

\* Lines 214-229: the next category: its page is fetched, its links parsed,
\* its folder made.
MainCategory ==
    /\ pc = "cat_loop"
    /\ categories # << >>
    /\ requested' = requested \cup {"category"}
    /\ since_sleep' = 1
    /\ categories' = Tail(categories)
    /\ \/ /\ Uncaught("fetch_category")
          /\ UNCHANGED << cat_folder, midi_links, cat_dirs, fs_dirs, extracted >>
       \/ \E page \in CategoryPages :
             LET cat == categories[1]
                 cat_display == CatDisplay(cat, page)
                 folder == CatFolder(cat_display)
             IN  /\ midi_links' = parse_midis(page.hrefs, cat_display)
                 /\ extracted' = extracted + Len(midi_links')
                 /\ cat_folder' = folder
                 /\ cat_dirs' = cat_dirs \cup {<< cat.url, folder >>}
                 /\ \E mkdir_ok \in IF folder \in fs_dirs THEN {TRUE}
                                    ELSE IF MkdirBlocked(folder) THEN {FALSE}
                                    ELSE BOOLEAN :
                       IF mkdir_ok
                       THEN /\ fs_dirs' = fs_dirs \cup WithAncestors(folder)
                            /\ pc' = "file_loop"
                            /\ UNCHANGED raised
                       ELSE /\ Uncaught("cat_mkdir")
                            /\ UNCHANGED fs_dirs
    /\ UNCHANGED << total_seen, total_downloaded, exit_status, found, returned >>
    /\ UNCHANGED << dl_vars, norm_vars, fn_vars, env_vars, renames, guarded,
                    first_call, fs_files >>

\* Lines 231-244: the next link of the category: download_file is called; after
\* the last one, the next category.
MainFile ==
    /\ pc = "file_loop"
    /\ IF midi_links = << >>
       THEN /\ pc' = "cat_loop"
            /\ UNCHANGED << dl_vars, total_seen >>
       ELSE /\ total_seen' = total_seen + 1
            /\ DlCall(midi_links[1].url, DestOf(cat_folder, midi_links[1]))
    /\ UNCHANGED << categories, cat_folder, midi_links, total_downloaded, exit_status,
                    raised, requested, cat_dirs, found, returned, extracted >>
    /\ UNCHANGED << norm_vars, fn_vars, env_vars, since_sleep, renames, guarded, first_call,
                    fs_dirs, fs_files >>

\* A counter that takes every outcome for a download.
CountedAlways(n, downloaded) == n + 1

\* Lines 245-246: total_downloaded after an outcome.
Counted(n, downloaded) == IF downloaded THEN n + 1 ELSE n

\* Lines 245-248: the outcome counted and logged, then the politeness sleep.
MainAfterDownload ==
    /\ pc = "dl_return"
    /\ total_downloaded' = Counted(total_downloaded, outcome.downloaded)
    /\ returned' = [returned EXCEPT ![outcome.message] = @ + 1]
    /\ midi_links' = Tail(midi_links)
    /\ DlReset
    /\ since_sleep' = 0
    /\ pc' = "file_loop"
    /\ UNCHANGED << categories, cat_folder, total_seen, exit_status, raised, requested,
                    cat_dirs, found, extracted >>
    /\ UNCHANGED << norm_vars, fn_vars, env_vars, renames, guarded, first_call,
                    fs_dirs, fs_files >>

\* Lines 250-251: after the last category the summary is printed and main
\* returns 0.
MainSummary ==
    /\ pc = "cat_loop"
    /\ categories = << >>
    /\ exit_status' = 0
    /\ pc' = "exited"
    /\ UNCHANGED << categories, cat_folder, midi_links, total_seen, total_downloaded,
                    raised, requested, cat_dirs, found, returned, extracted >>
    /\ UNCHANGED << dl_vars, norm_vars, fn_vars, env_vars, since_sleep, renames, guarded,
                    first_call, fs_dirs, fs_files >>

\* Line 255: an exception that leaves main ends the process with a traceback
\* and status 1.
MainUncaught ==
    /\ pc \in {"uncaught", "dl_raised"}
    /\ exit_status' = 1
    /\ raised' = IF pc = "dl_raised" THEN "dl_mkdir" ELSE raised
    /\ pc' = "exited"
    /\ UNCHANGED << categories, cat_folder, midi_links, total_seen, total_downloaded,
                    requested, cat_dirs, found, returned, extracted >>
    /\ UNCHANGED << dl_vars, norm_vars, fn_vars, env_vars, since_sleep, renames, guarded,
                    first_call, fs_dirs, fs_files >>

\* ------------------------------------------------------------------------
\* Initial states
\* ------------------------------------------------------------------------

EmptyFn == [x \in {} |-> 0]

\* The messages of download_file's outcomes.
Messages == {"downloaded", "exists", "dry-run", "error"}

\* No call of download_file has returned to main.
NoneReturned == [m \in Messages |-> 0]

\* A file left by an earlier run: a whole body.
OLD == Content(<< "o", "l", "d" >>, BodyLen)

\* No file.
ABSENT == Content(<< >>, -1)

\* The file at path, or ABSENT.
FileAt(path) == IF path \in DOMAIN fs_files THEN fs_files[path] ELSE ABSENT

A_MID == << "a", ".", "m", "i", "d" >>

\* The disks a run may start on: an empty one, and the tree of an earlier run
\* with the file a/a.mid.
InitialDisks ==
    { [dirs |-> {}, files |-> EmptyFn],
      [dirs |-> WithAncestors(Append(OUT_DIR, << "a" >>)),
       files |-> (OUT_DIR \o << << "a" >>, A_MID >>) :> OLD] }

DlIdle ==
    /\ url = NONE
    /\ dest_path = NONE
    /\ tmp_path = NONE
    /\ attempt = 0
    /\ last_err = NoErr
    /\ resp_read = 0
    /\ outcome = NoOutcome
    /\ requests = 0
    /\ sleeps = << >>
    /\ fails = << >>
    /\ cleanup_failed = FALSE

MainIdle ==
    /\ categories = << >>
    /\ cat_folder = NONE
    /\ midi_links = << >>
    /\ total_seen = 0
    /\ total_downloaded = 0
    /\ exit_status = -1
    /\ raised = "none"
    /\ requested = {}
    /\ cat_dirs = {}
    /\ found = -1
    /\ returned = NoneReturned
    /\ extracted = 0

FnIdle ==
    /\ fn_in = NONE
    /\ fn_out = NONE

NormIdle ==
    /\ n_url = NONE
    /\ n_once = NONE
    /\ n_twice = NONE

\* What is kept of the first of two calls of download_file: whether it has
\* returned, whether its destination was absent when it was called, and on
\* return its outcome, its requests, its failed attempts and the file it left.
NoFirstCall ==
    [done |-> FALSE, absent |-> FALSE, outcome |-> NoOutcome,
     requests |-> 0, fails |-> 0, content |-> ABSENT]

\* The process starts: the constants are set (DRY_RUN is edited by hand),
\* nothing has run.
Init ==
    /\ pc = "start"
    /\ \E disk \in InitialDisks :
          /\ fs_dirs = disk.dirs
          /\ fs_files = disk.files
          /\ fs0 = disk
    /\ dry_run \in BOOLEAN
    /\ retries = RETRIES
    /\ renames = EmptyFn
    /\ guarded = EmptyFn
    /\ first_call = NoFirstCall
    /\ since_sleep = 0
    /\ FnIdle
    /\ DlIdle
    /\ MainIdle
    /\ NormIdle

Next ==
    \/ MainStart
    \/ MainFetchIndex
    \/ MainCategory
    \/ MainFile
    \/ DlEnter
    \/ DlRequest
    \/ DlOpenTmp
    \/ DlCopy
    \/ DlReplace
    \/ DlExcept
    \/ MainAfterDownload
    \/ MainSummary
    \/ MainUncaught

Spec == Init /\ [][Next]_vars

\* ------------------------------------------------------------------------
\* download_file called twice in sequence with the same destination
\* ------------------------------------------------------------------------

B_MID == << "b", ".", "m", "i", "d" >>

\* The url arguments of the calls.
CallUrls ==
    { << "/", "m", "i", "d", "i", "s", "/", "a", ".", "m", "i", "d" >>,
      << "/", "m", "i", "d", "i", "s", "/", "b", " ", "c", ".", "m", "i", "d" >> }

\* The dest_path arguments of the calls.
CallDests == { OUT_DIR \o << << "a" >>, A_MID >>, OUT_DIR \o << << "a" >>, B_MID >> }

InitDownload ==
    /\ pc = "first"
    /\ \E disk \in InitialDisks :
          /\ fs_dirs = disk.dirs
          /\ fs_files = disk.files
          /\ fs0 = disk
    /\ dry_run \in BOOLEAN
    /\ retries \in 0..RETRIES
    /\ renames = EmptyFn
    /\ guarded = EmptyFn
    /\ first_call = NoFirstCall
    /\ since_sleep = 0
    /\ FnIdle
    /\ DlIdle
    /\ MainIdle
    /\ NormIdle

\* The first call: download_file(u, d, ...).
FirstCall ==
    /\ pc = "first"
    /\ \E u \in CallUrls, d \in CallDests :
          /\ DlCall(u, d)
          /\ first_call' = [first_call EXCEPT !.absent = ~Exists(d)]
    /\ UNCHANGED << main_vars, norm_vars, fn_vars, env_vars, since_sleep, renames, guarded,
                    fs_dirs, fs_files >>

\* The first call has returned: the second call, with the same destination.
SecondCall ==
    /\ pc = "dl_return"
    /\ ~first_call.done
    /\ first_call' = [done |-> TRUE, absent |-> first_call.absent, outcome |-> outcome,
                      requests |-> requests, fails |-> Len(fails),
                      content |-> FileAt(dest_path)]
    /\ \E u \in CallUrls : DlCall(u, dest_path)
    /\ UNCHANGED << main_vars, norm_vars, fn_vars, env_vars, since_sleep, renames, guarded,
                    fs_dirs, fs_files >>

NextDownload ==
    \/ FirstCall
    \/ DlEnter
    \/ DlRequest
    \/ DlOpenTmp
    \/ DlCopy
    \/ DlReplace
    \/ DlExcept
    \/ SecondCall

SpecDownload == InitDownload /\ [][NextDownload]_vars

\* ------------------------------------------------------------------------
\* normalize_url applied to its own result
\* ------------------------------------------------------------------------

\* The characters of the hrefs: separators, the percent sign with the hex
\* digits of %2F, %3F, %23, %26, %3D, %3B and %2B, a letter, a space, "+".
NormAlphabet ==
    {"/", "?", "#", "&", "=", ";", "%", "2", "3", "6", "B", "D", "F", "a", " ", "+"}

\* The hrefs normalize_url is given.
NormInputs == BoundedSeq(NormAlphabet, MaxUrlLen)

InitNormalize ==
    /\ pc = "norm"
    /\ n_url \in NormInputs
    /\ n_once = NONE
    /\ n_twice = NONE
    /\ fs_dirs = {}
    /\ fs_files = EmptyFn
    /\ fs0 = [dirs |-> {}, files |-> EmptyFn]
    /\ dry_run = FALSE
    /\ retries = RETRIES
    /\ renames = EmptyFn
    /\ guarded = EmptyFn
    /\ first_call = NoFirstCall
    /\ since_sleep = 0
    /\ FnIdle
    /\ DlIdle
    /\ MainIdle

\* once = normalize_url(u)
NormalizeOnce ==
    /\ pc = "norm"
    /\ n_once' = normalize_url(n_url)
    /\ pc' = "norm_once"
    /\ UNCHANGED << n_url, n_twice >>
    /\ UNCHANGED << dl_vars, main_vars, fn_vars, env_vars, since_sleep, renames, guarded,
                    first_call, fs_dirs, fs_files >>

\* twice = normalize_url(once)
NormalizeTwice ==
    /\ pc = "norm_once"
    /\ n_twice' = normalize_url(n_once)
    /\ pc' = "norm_twice"
    /\ UNCHANGED << n_url, n_once >>
    /\ UNCHANGED << dl_vars, main_vars, fn_vars, env_vars, since_sleep, renames, guarded,
                    first_call, fs_dirs, fs_files >>

NextNormalize ==
    \/ NormalizeOnce
    \/ NormalizeTwice

SpecNormalize == InitNormalize /\ [][NextNormalize]_vars

\* ------------------------------------------------------------------------
\* The helpers applied on their own
\* ------------------------------------------------------------------------

\* The characters of the texts _slugify is given: a lower-case and an
\* upper-case letter, a space, a hyphen, a dot, a character outside the class.
SlugAlphabet == {"a", "B", " ", "-", ".", "!"}

\* The calls _slugify(text, max_len)
SlugifyCalls ==
    [fn : {"_slugify"}, args : BoundedSeq(SlugAlphabet, MaxTextLen) \X (0..MaxSlugLen)]

\* The hrefs of the category pages parse_midis is given: two spellings of one
\* file, another file, and a link to no file.
MidiHrefs ==
    { << "/", "m", "i", "d", "i", "s", "/", "a", " ", "b", ".", "m", "i", "d" >>,
      << "/", "m", "i", "d", "i", "s", "/", "a", "%", "2", "0", "b", ".", "m", "i", "d" >>,
      << "/", "m", "i", "d", "i", "s", "/", "c", ".", "m", "i", "d" >>,
      << "/", "m", "i", "d", "i", "s", "/", "c" >> }

\* The calls parse_midis(html, category_name=...), html by its hrefs
ParseMidisCalls ==
    [fn : {"parse_midis"}, args : BoundedSeq(MidiHrefs, MaxHrefs) \X {<< "A" >>}]

\* The hrefs of the index pages parse_categories is given: a category, the
\* same category and the index through dot segments, a file, another site path.
CategoryHrefs ==
    { << "/", "m", "i", "d", "i", "s", "/", "a" >>,
      << "/", "m", "i", "d", "i", "s", "/", ".", "/", "a" >>,
      << "/", "m", "i", "d", "i", "s", "/", ".", ".", "/", "m", "i", "d", "i", "s" >>,
      << "/", "m", "i", "d", "i", "s", "/", "b", ".", "m", "i", "d" >>,
      << "/", "x" >> }

\* The calls parse_categories(html), html by its hrefs
ParseCategoriesCalls ==
    [fn : {"parse_categories"},
     args : {<< hrefs >> : hrefs \in BoundedSeq(CategoryHrefs, MaxHrefs)}]

\* The pieces of the urls _safe_filename_from_url is given: letters, a dot,
\* an encoded space, a slash, the start of a query.
FilenameTokens ==
    { << "a" >>, << "M" >>, << "." >>, << "%", "2", "0" >>, << "/" >>, << "?" >> }

\* The pieces of a sequence of tokens, one after the other.
RECURSIVE Concat(_)
Concat(tokens) == IF tokens = << >> THEN << >> ELSE tokens[1] \o Concat(Tail(tokens))

\* The calls _safe_filename_from_url(url), url under BASE_URL/midis/
SafeFilenameCalls ==
    [fn : {"_safe_filename_from_url"},
     args : {<< BASE_URL \o MIDIS_PREFIX \o Concat(tokens) >> :
                tokens \in BoundedSeq(FilenameTokens, MaxTokens)}]

\* One helper is called with its arguments.
InitHelpers ==
    /\ pc = "call"
    /\ fn_in \in SlugifyCalls \cup ParseMidisCalls \cup ParseCategoriesCalls
                \cup SafeFilenameCalls
    /\ fn_out = NONE
    /\ fs_dirs = {}
    /\ fs_files = EmptyFn
    /\ fs0 = [dirs |-> {}, files |-> EmptyFn]
    /\ dry_run = FALSE
    /\ retries = RETRIES
    /\ renames = EmptyFn
    /\ guarded = EmptyFn
    /\ first_call = NoFirstCall
    /\ since_sleep = 0
    /\ DlIdle
    /\ MainIdle
    /\ NormIdle

\* The frame of a helper's call: it touches no file, counter or request.
Returned ==
    /\ pc' = "returned"
    /\ UNCHANGED << fn_in, dl_vars, main_vars, norm_vars, env_vars, since_sleep, renames,
                    guarded, first_call, fs_dirs, fs_files >>

CallSlugify ==
    /\ pc = "call"
    /\ fn_in.fn = "_slugify"
    /\ fn_out' = _slugify(fn_in.args[1], fn_in.args[2])
    /\ Returned

CallParseMidis ==
    /\ pc = "call"
    /\ fn_in.fn = "parse_midis"
    /\ fn_out' = parse_midis(fn_in.args[1], fn_in.args[2])
    /\ Returned

CallParseCategories ==
    /\ pc = "call"
    /\ fn_in.fn = "parse_categories"
    /\ fn_out' = parse_categories(fn_in.args[1])
    /\ Returned

CallSafeFilename ==
    /\ pc = "call"
    /\ fn_in.fn = "_safe_filename_from_url"
    /\ fn_out' = _safe_filename_from_url(fn_in.args[1])
    /\ Returned

NextHelpers ==
    \/ CallSlugify
    \/ CallParseMidis
    \/ CallParseCategories
    \/ CallSafeFilename

SpecHelpers == InitHelpers /\ [][NextHelpers]_vars

\* ------------------------------------------------------------------------
\* Properties
\* ------------------------------------------------------------------------

\* C1: when download_file is called twice in sequence with one destination and
\* the first call downloaded the file, the second call issues no HTTP request,
\* never leaves the short circuit, returns (False, "exists"), and the
\* destination holds what the first call left there; a first call none of
\* whose attempts failed issued exactly one request, so both calls together
\* make one transfer.
C1_ResumeNoClobber ==
    (first_call.done /\ first_call.outcome.downloaded) =>
        /\ ~dry_run
        /\ requests = 0
        /\ pc \in {"dl_enter", "dl_return"}
        /\ pc = "dl_return" => outcome = Outcome(FALSE, "exists", NoErr)
        /\ FileAt(dest_path) = first_call.content
        /\ first_call.fails = 0 => first_call.requests + requests = 1

\* The second call has returned "exists" after a first call that downloaded a
\* whole body in one attempt.
C1_Witness ==
    /\ pc = "dl_return"
    /\ first_call.done
    /\ first_call.absent
    /\ first_call.outcome.downloaded
    /\ first_call.fails = 0
    /\ outcome.message = "exists"
    /\ Complete(FileAt(dest_path))

\* C2: in every state of download_file the final destination path holds no
\* file or a complete response body; a partial body is never there.
C2_AtomicWrite ==
    dest_path # NONE => (dest_path \notin DOMAIN fs_files \/ Complete(fs_files[dest_path]))

\* C3: download_file never raises: no exception leaves it, and what it returns
\* is one of its four outcomes.
C3_NeverRaises ==
    /\ pc # "dl_raised"
    /\ pc = "dl_return" => outcome.message \in {"exists", "dry-run", "downloaded", "error"}

\* C4: the attempts that fail are numbered 0, 1, ... in order and are at most
\* retries + 1; the sleep after failed attempt k is BACKOFF_S * 2^k and there
\* is one after each failed attempt but the last of retries + 1; the call
\* returns "downloaded" at its first attempt that succeeds, and returns an error
\* carrying the last failure only after retries + 1 failed attempts.
C4_RetrySchedule ==
    /\ fails = [i \in 1..Len(fails) |-> i - 1]
    /\ Len(fails) <= retries + 1
    /\ sleeps = [i \in 1..Len(sleeps) |-> BACKOFF_S * (2 ^ (i - 1))]
    /\ Len(sleeps) = (IF Len(fails) <= retries THEN Len(fails) ELSE retries)
    /\ pc \in {"dl_request", "dl_open", "dl_read", "dl_replace", "dl_except"}
          => attempt = Len(fails)
    /\ (pc = "dl_return" /\ outcome.downloaded)
          => (attempt = Len(fails) /\ requests = Len(fails) + 1)
    /\ (pc = "dl_return" /\ outcome.message = "error")
          => /\ Len(fails) = retries + 1
             /\ requests = retries + 1
             /\ outcome.err = last_err
             /\ last_err.attempt = retries

\* Two attempts failed, the third succeeded, and the call slept BACKOFF_S and
\* then twice BACKOFF_S.
C4_Witness ==
    /\ pc = "dl_return"
    /\ outcome.downloaded
    /\ retries = 2
    /\ fails = << 0, 1 >>
    /\ sleeps = << BACKOFF_S, 2 * BACKOFF_S >>

\* C5: in a whole run every destination path is renamed into place at most
\* once, and a destination that existed when its download was invoked keeps
\* its content.
C5_WrittenOnce ==
    /\ \A p \in DOMAIN renames : renames[p] <= 1
    /\ \A p \in DOMAIN guarded : FileAt(p) = guarded[p]

\* C6: a run in which the fetch of a category page failed is not aborted by
\* it: it ends only through the final summary, with status 0.
C6_CategoryRecovery ==
    raised = "fetch_category" => (pc # "exited" \/ exit_status = 0)

\* C7: when the index fetch fails the run ends with a non-zero status having
\* requested nothing but the index; when the index yields no category the run
\* ends at once with status 2 having requested nothing but the index; a run
\* in which the index yields a category and no fetch fails ends with status 0.
C7_FatalRun ==
    /\ raised = "fetch_index"
          => (requested = {"index"} /\ (pc = "exited" => exit_status # 0))
    /\ found = 0 => (pc = "exited" /\ exit_status = 2 /\ requested = {"index"})
    /\ (pc = "exited" /\ found > 0 /\ raised \notin {"fetch_index", "fetch_category"})
          => exit_status = 0

\* C8: with the dry-run flag set the run downloads no file and the disk stays
\* as it was when the run started: no file and no directory is created.
C8_DryRunNoWrites ==
    dry_run => (fs_dirs = fs0.dirs /\ fs_files = fs0.files /\ "file" \notin requested)

\* C9: two distinct categories of one run get distinct folders.
C9_DistinctFolders ==
    \A x, y \in cat_dirs : x[1] # y[1] => x[2] # y[2]

\* C10: normalize_url(normalize_url(u)) = normalize_url(u)
C10_Idempotent ==
    pc = "norm_twice" => n_twice = n_once

\* C11: for every text and every max_len >= 0, _slugify(text, max_len) holds
\* only characters of [a-z0-9-_.()] and is never empty; it has at most max_len
\* characters unless it is the fallback "untitled", which is returned whole
\* when nothing of the sanitized text is left within max_len.
C11_SlugifyRange ==
    (pc = "returned" /\ fn_in.fn = "_slugify") =>
        /\ fn_out # << >>
        /\ \A i \in 1..Len(fn_out) : fn_out[i] \in SlugChars
        /\ Len(fn_out) <= fn_in.args[2] \/ fn_out = UNTITLED

\* C11, witness: a text longer than max_len was cut to max_len characters.
C11_Witness ==
    /\ pc = "returned"
    /\ fn_in.fn = "_slugify"
    /\ fn_in.args[2] > 0
    /\ Len(fn_in.args[1]) > fn_in.args[2]
    /\ Len(fn_out) = fn_in.args[2]
    /\ fn_out # UNTITLED

\* C11 as stated: the result has at most max_len characters for every
\* max_len >= 0.
C11_SlugifyWithinMaxLen ==
    (pc = "returned" /\ fn_in.fn = "_slugify") =>
        /\ fn_out # << >>
        /\ \A i \in 1..Len(fn_out) : fn_out[i] \in SlugChars
        /\ Len(fn_out) <= fn_in.args[2]


\* C12: parse_midis returns no two entries with the same normalized url, and
\* its entries are exactly the first occurrences of each distinct normalized
\* url among the matching hrefs, in the order they are first seen: the i-th
\* entry is the entry of the i-th matching href whose normalized url no
\* earlier matching href has.
C12_MidisDedup ==
    (pc = "returned" /\ fn_in.fn = "parse_midis") =>
        LET matching == SelectSeq(fn_in.args[1], IsMidiHref)
            first == {k \in 1..Len(matching) :
                        \A j \in 1..(k - 1) :
                            normalize_url(matching[j]) # normalize_url(matching[k])}
        IN  /\ \A i, j \in 1..Len(fn_out) : fn_out[i].url = fn_out[j].url => i = j
            /\ Len(fn_out) = Cardinality(first)
            /\ \A k \in first :
                  fn_out[Cardinality({j \in first : j <= k})] =
                      [category_name |-> fn_in.args[2],
                       title |-> unquote(basename(urlparse(normalize_url(matching[k]),
                                                           << >>).path)),
                       url |-> normalize_url(matching[k])]

\* C12, witness: a page with three matching hrefs, the second a different
\* spelling of the first, the third another file; two entries are returned.
C12_Witness ==
    /\ pc = "returned"
    /\ fn_in.fn = "parse_midis"
    /\ Len(SelectSeq(fn_in.args[1], IsMidiHref)) = 3
    /\ fn_in.args[1][1] # fn_in.args[1][2]
    /\ normalize_url(fn_in.args[1][1]) = normalize_url(fn_in.args[1][2])
    /\ Len(fn_out) = 2
    /\ fn_out[2].url = normalize_url(fn_in.args[1][3])


\* C13: parse_categories returns exactly one entry per distinct resolved url
\* among the hrefs that begin with "/midis/" and do not end in .mid/.midi,
\* never an entry for the index page itself, never an entry for an href
\* ending in .mid/.midi, and so never two entries with the same resolved url.
C13_CategoriesDedup ==
    (pc = "returned" /\ fn_in.fn = "parse_categories") =>
        LET hrefs == fn_in.args[1]
            index_url == urljoin(BASE_URL, << "/", "m", "i", "d", "i", "s" >>)
            resolved == {urljoin(BASE_URL, hrefs[k]) :
                            k \in {j \in 1..Len(hrefs) :
                                      /\ StartsWith(hrefs[j], MIDIS_PREFIX)
                                      /\ ~IsMidiHref(hrefs[j])}}
        IN  /\ {fn_out[i].url : i \in 1..Len(fn_out)} = resolved \ {index_url}
            /\ \A i, j \in 1..Len(fn_out) : fn_out[i].url = fn_out[j].url => i = j
            /\ \A i \in 1..Len(fn_out) : fn_out[i].url # index_url
            /\ \A i \in 1..Len(fn_out) :
                  \A k \in 1..Len(hrefs) :
                      IsMidiHref(hrefs[k]) => fn_out[i].url # urljoin(BASE_URL, hrefs[k])


\* C14: for every url, _safe_filename_from_url returns a non-empty name
\* whose characters, those of the extension included, are all of the slug
\* alphabet [a-z0-9-_.()], and the name ends in ".mid" when the url's decoded
\* basename has no extension.
C14_SafeFilename ==
    (pc = "returned" /\ fn_in.fn = "_safe_filename_from_url") =>
        /\ fn_out # << >>
        /\ \A i \in 1..Len(fn_out) : fn_out[i] \in SlugChars
        /\ splitext(unquote(basename(urlparse(fn_in.args[1], << >>).path)))[2] = << >>
              => /\ Len(fn_out) > Len(DOT_MID)
                 /\ Drop(fn_out, Len(fn_out) - Len(DOT_MID) + 1) = DOT_MID


\* C15: between any two consecutive HTTP requests of a run (the index fetch,
\* the category-page fetches, the requests of the file downloads) a delay is
\* applied: no second request is issued before a sleep has followed the first.
C15_Politeness == since_sleep <= 1


C19_DryRunDownload ==
    LET present == dest_path \in fs0.dirs \/ dest_path \in DOMAIN fs0.files
        untouched == fs_dirs = fs0.dirs /\ fs_files = fs0.files /\ requests = 0
    IN  url # NONE =>
            /\ dry_run =>
                  /\ untouched
                  /\ tmp_path = NONE
                  /\ pc \in {"dl_enter", "dl_return"}
                  /\ pc = "dl_return" =>
                        /\ ~outcome.downloaded
                        /\ outcome.message = IF present THEN "exists" ELSE "dry-run"
            /\ (present /\ ~first_call.done /\ pc = "dl_return") =>
                  /\ untouched
                  /\ ~outcome.downloaded
                  /\ outcome.message = "exists"

\* C19, witness: on a disk that holds another file, a dry-run call for an
\* absent destination has returned (False, "dry-run").
C19_Witness ==
    /\ pc = "dl_return"
    /\ dry_run
    /\ fs0.files # EmptyFn
    /\ dest_path \notin DOMAIN fs0.files
    /\ outcome.message = "dry-run"


\* C20: whenever download_file returns (True, "downloaded"), the destination
\* file exists and holds exactly the chunks read during the final attempt, in
\* order, from the body the request was answered with; nothing written
\* during an earlier failed attempt is in it, whether or not the temporary
\* file of that attempt was cleaned up.
C20_FinalAttemptContent ==
    (pc = "dl_return" /\ outcome.downloaded) =>
        /\ dest_path \in DOMAIN fs_files
        /\ fs_files[dest_path] = [body |-> RequestUrl(url), n |-> resp_read]

\* C20, witness: a call has returned (True, "downloaded") with the whole body
\* after a failed attempt whose temporary file could not be removed.
C20_Witness ==
    /\ pc = "dl_return"
    /\ outcome.downloaded
    /\ fails # << >>
    /\ cleanup_failed
    /\ resp_read = BodyLen

====
